---- MODULE Spec2Model ----
(***************************************************************************)
(* Model of the response-generation orchestration of MiniSearch:           *)
(*   src/client/modules/textGeneration.ts   prepareTextGeneration and the  *)
(*                                          three backends it drives       *)
(*   src/unnamed/part_000                   the wllama module              *)
(*                                                                         *)
(* The program runs on one cooperative event loop: the code between two    *)
(* awaits is one atomic step, and every await is a point where the user,   *)
(* the network, the inference libraries and the clock may act.  Each       *)
(* action below is one such segment of one async function.                 *)
(***************************************************************************)
EXTENDS Integers, Sequences, FiniteSets, TLC

(***************************************************************************)
(* Bounds of the model.                                                    *)
(***************************************************************************)
\* chunks (tokens) one completion stream delivers at most
MaxChunks == 2
\* clock advances observed while a stream is open
MaxTicks == 1
\* clicks on the menu button and closings of the drawer
MaxMenuEvents == 9

(***************************************************************************)
(* Values.                                                                 *)
(***************************************************************************)
\* invocations of prepareTextGeneration
Calls == {1, 2}
\* the query the caller has published before invocation r ("" is the empty query)
Queries(r) == IF r = 1 THEN {"", "q1"} ELSE {"", "q2"}
\* delta.content of a chunk / the piece of a token: empty, or one character
Deltas == {<<>>, <<"a">>}
\* model.stopStrings of the selected Wllama model: undefined, or one stop string
StopStringChoices == {{}, {<<"a", "a">>}}
\* the step by which Date.now() is seen to advance between two tokens, in ms:
\* the update interval, rounded up (with no step in between, two tokens arrive
\* in the same millisecond)
TickSteps == {84}
\* Date.now() when the page starts (milliseconds since the epoch, far from 0)
StartTimes == {1000}

VARIABLES
  \* ---- pubSub.ts stores read and written by textGeneration.ts
  query,                  \* getQuery()
  settings,               \* getSettings()
  textGenerationState,    \* getTextGenerationState()
  response,               \* last value given to updateResponse
  searchResults,          \* getSearchResults().textResults
  searchPromise,          \* getSearchPromise(): the call whose startSearch promise is stored, 0 if none
  searchState,            \* last value given to updateSearchState
  \* ---- module state and environment
  isWebGPUAvailable,      \* webGpu.ts isWebGPUAvailable
  lastUpdateTime,         \* updateResponseRateLimited.lastUpdateTime
  now,                    \* Date.now()
  ticks,                  \* clock advances so far (bounded by MaxTicks)
  \* ---- the coroutines
  call,                   \* call[r]: the r-th invocation of prepareTextGeneration
  search,                 \* search[r]: the startSearch coroutine started by call r
  \* ---- history
  rlForwards,             \* Date.now() of the last two forwards made by updateResponseRateLimited
  \* ---- MenuButton.tsx
  menu                    \* the state, the rendered tree and the log entries of MenuButton

vars == <<query, settings, textGenerationState, response, searchResults,
          searchPromise, searchState, isWebGPUAvailable,
          lastUpdateTime, now, ticks, call, search, rlForwards, menu>>

(***************************************************************************)
(* Program constants.                                                      *)
(***************************************************************************)
\* updateResponseRateLimited.updateInterval = 1000 / 12, kept as a fraction
updateIntervalNumerator == 1000
updateIntervalDenominator == 12

TerminalStates == {"completed", "failed", "interrupted"}
ProgressStates == {"loadingModel", "awaitingSearchResults", "preparingToGenerate", "generating"}

(***************************************************************************)
(* Strings as sequences of characters: the JavaScript string operations    *)
(* the Wllama token callback uses.                                         *)
(***************************************************************************)
Min(a, b) == IF a < b THEN a ELSE b
Max(a, b) == IF a > b THEN a ELSE b

\* s.slice(-k): the last k characters of s (all of s when it is shorter); k > 0
SliceLast(s, k) == SubSeq(s, Max(1, Len(s) - k + 1), Len(s))

\* s.slice(0, -k): s without its last k characters; k > 0
SliceDropLast(s, k) == SubSeq(s, 1, Max(0, Len(s) - k))

\* s.includes(t)
Includes(s, t) ==
  \E i \in 1..(Len(s) - Len(t) + 1) : SubSeq(s, i, i + Len(t) - 1) = t


(***************************************************************************)
(* Settings and results.                                                   *)
(***************************************************************************)
Settings ==
  [enableAiResponse : BOOLEAN,
   inferenceType : {"openai", "browser"},
   enableWebGpu : BOOLEAN,
   searchResultsToConsider : {0, 1}]

\* what a search returns: no text result, or one result about the searched query
TextResults(q) == {<<>>, <<q>>}

\* getFormattedSearchResults: the first searchResultsToConsider published text
\* results; the empty sequence stands for the text "None."
getFormattedSearchResults ==
  SubSeq(searchResults, 1, Min(Len(searchResults), settings.searchResultsToConsider))

(***************************************************************************)
(* The coroutines' records.                                                *)
(***************************************************************************)
NoPrompt == [query |-> "", results |-> <<>>]

IdleCall ==
  [pc |-> "idle",            \* where the invocation is suspended
   backend |-> "none",       \* the generateTextWith... function it is inside
   started |-> <<>>,         \* the backends it has invoked, in order
   awaited |-> 0,            \* the search promise canStartResponding awaits
   considered |-> FALSE,     \* canStartResponding read searchResultsToConsider > 0
   requested |-> FALSE,      \* the current backend has issued its completion request
   prompt |-> NoPrompt,      \* the query and formatted results of that request
   streamedMessage |-> <<>>, \* let streamedMessage
   currentText |-> <<>>,     \* the text the Wllama library has generated so far
   chunks |-> 0,             \* chunks the open stream has delivered
   aborts |-> 0,             \* invocations of the backend's abort mechanism
   engine |-> "none",        \* the WebLLM engine: none, live, unloaded
   wllama |-> "none",        \* the Wllama instance: none, live, exited
   stopStrings |-> {},       \* model.stopStrings of the Wllama model (line 221)
   errors |-> <<>>,          \* the errors thrown to prepareTextGeneration: <<backend, stage>>
   log |-> {}]               \* the log entries the invocation has added

IdleSearch == [pc |-> "idle", query |-> "", results |-> <<>>]

InFlight(r) == call[r].pc \notin {"idle", "done"}

\* MenuButton before its first render commits anything but the button
InitialMenu ==
  [isDrawerOpen |-> FALSE,       \* useState(false), line 8
   isDrawerLoaded |-> FALSE,     \* useState(false), line 9
   MenuDrawer |-> "unrequested", \* the lazy component: unrequested, pending, resolved
   fallback |-> <<>>,            \* the mounted DrawerFallback: the isDrawerLoaded its
                                 \* handleDrawerLoad closed over, <<>> when not mounted
   mounted |-> FALSE,            \* the Suspense subtree of lines 45-49 is mounted
   loading |-> FALSE,            \* the loading prop of the button, line 41
   log |-> <<>>]                 \* the entries given to addLogEntry, in order

Init ==
  /\ query = ""
  /\ settings \in Settings
  /\ textGenerationState = "idle"
  /\ response = <<>>
  /\ searchResults = <<>>
  /\ searchPromise = 0
  /\ searchState = "idle"
  /\ isWebGPUAvailable \in BOOLEAN
  /\ lastUpdateTime = 0
  /\ now \in StartTimes
  /\ ticks = 0
  /\ call = [r \in Calls |-> IdleCall]
  /\ search = [r \in Calls |-> IdleSearch]
  /\ rlForwards = <<>>
  /\ menu = InitialMenu

\* a faulty variant of Call: the return of line 33 is missing, so that the
\* generation starts although the AI response is disabled
CallIgnoringEnableAiResponse(r) ==
  /\ call[r].pc = "idle"
  /\ \A p \in Calls : p < r => call[p].pc # "idle"
  /\ \E q \in Queries(r) :
       /\ query' = q
       /\ IF q = ""
          THEN /\ call' = [call EXCEPT ![r].pc = "done"]
               /\ UNCHANGED <<response, searchResults, searchPromise, searchState,
                              search, textGenerationState>>
          ELSE /\ response' = <<>>
               /\ searchResults' = <<>>
               /\ searchState' = "running"
               /\ search' = [search EXCEPT ![r] = [IdleSearch EXCEPT !.pc = "ui1", !.query = q]]
               /\ searchPromise' = r
               /\ textGenerationState' = "loadingModel"
               /\ call' = [call EXCEPT ![r].pc = "loadingModel"]
  /\ UNCHANGED <<settings, isWebGPUAvailable, lastUpdateTime, now, ticks,
                 rlForwards, menu>>

\* a faulty variant of Call: the return of line 23 is missing, so that an empty
\* query is searched and answered like any other
CallWithoutEmptyQueryReturn(r) ==
  /\ call[r].pc = "idle"
  /\ \A p \in Calls : p < r => call[p].pc # "idle"
  /\ \E q \in Queries(r) :
       /\ query' = q
       /\ response' = <<>>
       /\ searchResults' = <<>>
       /\ searchState' = "running"
       /\ search' = [search EXCEPT ![r] = [IdleSearch EXCEPT !.pc = "ui1", !.query = q]]
       /\ searchPromise' = r
       /\ IF ~settings.enableAiResponse
          THEN /\ call' = [call EXCEPT ![r].pc = "done"]
               /\ UNCHANGED textGenerationState
          ELSE /\ textGenerationState' = "loadingModel"
               /\ call' = [call EXCEPT ![r].pc = "loadingModel"]
  /\ UNCHANGED <<settings, isWebGPUAvailable, lastUpdateTime, now, ticks,
                 rlForwards, menu>>

(***************************************************************************)
(* prepareTextGeneration, lines 22-39: up to the first await.  The call to *)
(* startSearch runs startSearch up to its first await (lines 321-324).     *)
(***************************************************************************)
Call(r) ==
  /\ call[r].pc = "idle"
  /\ \A p \in Calls : p < r => call[p].pc # "idle"
  /\ \E q \in Queries(r) :
       /\ query' = q
       /\ IF q = ""
          THEN /\ call' = [call EXCEPT ![r].pc = "done"]
               /\ UNCHANGED <<response, searchResults, searchPromise, searchState,
                              search, textGenerationState>>
          ELSE /\ response' = <<>>
               /\ searchResults' = <<>>
               /\ searchState' = "running"
               /\ search' = [search EXCEPT ![r] = [IdleSearch EXCEPT !.pc = "ui1", !.query = q]]
               /\ searchPromise' = r
               /\ IF ~settings.enableAiResponse
                  THEN /\ call' = [call EXCEPT ![r].pc = "done"]
                       /\ UNCHANGED textGenerationState
                  ELSE /\ textGenerationState' = "loadingModel"
                       /\ call' = [call EXCEPT ![r].pc = "loadingModel"]
  /\ UNCHANGED <<settings, isWebGPUAvailable, lastUpdateTime, now, ticks,
                 rlForwards, menu>>

(***************************************************************************)
(* startSearch, lines 321-346.                                             *)
(***************************************************************************)
SearchFrame ==
  UNCHANGED <<query, settings, textGenerationState, response, searchPromise,
              isWebGPUAvailable, lastUpdateTime, now, ticks, call,
              rlForwards, menu>>

\* line 324 resumes: the first search is issued (line 326); the awaits of
\* untilUiIsUpdated resume in the order in which they began
SearchIssued(r) ==
  /\ search[r].pc = "ui1"
  /\ \A p \in Calls : p < r => search[p].pc # "ui1"
  /\ search' = [search EXCEPT ![r].pc = "search1"]
  /\ UNCHANGED <<searchResults, searchState>>
  /\ SearchFrame

\* lines 337-343: publish the state and the results, then await the UI
SearchPublish(r, results) ==
  /\ searchState' = IF Len(results) = 0 THEN "failed" ELSE "completed"
  /\ searchResults' = results
  /\ search' = [search EXCEPT ![r].pc = "ui2", ![r].results = results]

\* the first search returns (lines 326-335)
FirstSearchReturns(r) ==
  /\ search[r].pc = "search1"
  /\ \E results \in TextResults(search[r].query) :
       IF Len(results) = 0
       THEN /\ search' = [search EXCEPT ![r].pc = "search2"]
            /\ UNCHANGED <<searchResults, searchState>>
       ELSE SearchPublish(r, results)
  /\ SearchFrame

\* the second search, with the query's keywords, returns (lines 334-343)
SecondSearchReturns(r) ==
  /\ search[r].pc = "search2"
  /\ \E results \in TextResults(search[r].query) : SearchPublish(r, results)
  /\ SearchFrame

\* search() or getKeywords() rejects: the promise of startSearch rejects
SearchRejects(r) ==
  /\ search[r].pc \in {"search1", "search2"}
  /\ search' = [search EXCEPT ![r].pc = "rejected"]
  /\ UNCHANGED <<searchResults, searchState>>
  /\ SearchFrame

\* line 343 resumes: startSearch returns and its promise resolves (line 345)
SearchResolves(r) ==
  /\ search[r].pc = "ui2"
  /\ search' = [search EXCEPT ![r].pc = "resolved"]
  /\ UNCHANGED <<searchResults, searchState>>
  /\ SearchFrame


(***************************************************************************)
(* The decisions the code takes, as operators.                             *)
(***************************************************************************)
\* a faulty variant of SelectBackend: the test of settings.enableWebGpu
\* (line 49) is missing
SelectBackendIgnoringEnableWebGpu(s, gpu) ==
  IF s.inferenceType = "openai" THEN "openai"
  ELSE IF gpu THEN "webllm"
  ELSE "wllama"

\* prepareTextGeneration, lines 43-55: the backend a request invokes first
SelectBackend(s, gpu) ==
  IF s.inferenceType = "openai" THEN "openai"
  ELSE IF gpu /\ s.enableWebGpu THEN "webllm"
  ELSE "wllama"

\* canStartResponding, line 349
ShouldAwaitSearch(s) == s.searchResultsToConsider > 0

\* the token handlers' test for an interruption (lines 113, 197, 263)
ShouldAbort(st) == st = "interrupted"

\* a faulty variant of StateOnToken: the test for "interrupted" is missing
StateOnTokenOverwriting(st) ==
  IF st # "generating" THEN "generating" ELSE st

\* the state a token handler leaves (lines 113-117, 197-201, 263-267)
StateOnToken(st) ==
  IF st = "interrupted" THEN st
  ELSE IF st # "generating" THEN "generating"
  ELSE st

\* a faulty variant of FinalState: the state is not set to "completed"
FinalStateKept(st) == st

\* prepareTextGeneration, lines 59-61
FinalState(st) == IF st # "interrupted" THEN "completed" ELSE st

\* updateResponseRateLimited, lines 359-362, with updateInterval = 1000 / 12
RateLimitPasses(currentTime, last) ==
  updateIntervalDenominator * (currentTime - last) >= updateIntervalNumerator

\* the stop strings found in the last 2 * length characters (lines 270-273)
StopStringsHit(stopStrings, text) ==
  {s \in stopStrings : Includes(SliceLast(text, 2 * Len(s)), s)}

\* the text the Wllama token handler keeps (lines 269-281)
TextAfterStopStrings(stopStrings, text) ==
  IF StopStringsHit(stopStrings, text) = {} THEN text
  ELSE SliceDropLast(text, Len(CHOOSE s \in StopStringsHit(stopStrings, text) : TRUE))

(***************************************************************************)
(* Fragments of prepareTextGeneration shared by its segments.              *)
(***************************************************************************)
CallFrame ==
  UNCHANGED <<query, settings, searchResults, searchPromise, searchState,
              isWebGPUAvailable, now, ticks, search, menu>>

NoForward == UNCHANGED <<response, lastUpdateTime, rlForwards>>

\* the call enters generateTextWith<b>
Enter(c, b) ==
  [c EXCEPT !.backend = b, !.started = Append(@, b), !.awaited = 0,
            !.considered = FALSE, !.requested = FALSE, !.prompt = NoPrompt,
            !.streamedMessage = <<>>, !.currentText = <<>>, !.chunks = 0]

\* a faulty variant of updateResponseRateLimited: line 364 is missing
updateResponseRateLimitedForgettingTime(text) ==
  IF RateLimitPasses(now, lastUpdateTime)
  THEN /\ response' = text
       /\ rlForwards' = SliceLast(Append(rlForwards, now), 2)
       /\ UNCHANGED lastUpdateTime
  ELSE NoForward

\* updateResponseRateLimited(text), lines 356-366
updateResponseRateLimited(text) ==
  IF RateLimitPasses(now, lastUpdateTime)
  THEN /\ response' = text
       /\ lastUpdateTime' = now
       /\ rlForwards' = SliceLast(Append(rlForwards, now), 2)
  ELSE NoForward

\* await canStartResponding() and the two lines after it
\* (lines 85-89, 173-177, 245-249 with 348-351)
StartResponding(r, c) ==
  IF ShouldAwaitSearch(settings)
  THEN /\ textGenerationState' = "awaitingSearchResults"
       /\ call' = [call EXCEPT ![r] = [c EXCEPT !.pc = "canStartResponding",
                                                !.considered = TRUE]]
  ELSE /\ textGenerationState' = "preparingToGenerate"
       /\ call' = [call EXCEPT ![r] = [c EXCEPT !.pc = "preparingToGenerate"]]

\* a faulty variant of Catch: the inner try of lines 46-56 is missing, so that
\* every error ends the request
CatchWithoutFallback(r, c, stage) ==
  /\ call' = [call EXCEPT ![r] =
                [c EXCEPT !.errors = Append(@, <<c.backend, stage>>),
                          !.pc = "finally",
                          !.log = @ \cup {"Error generating text"}]]
  /\ textGenerationState' = "failed"

\* a faulty variant of Catch: the fallback of lines 52-55 also catches the
\* errors of generateTextWithWllama and starts it again
CatchRetryingWllama(r, c, stage) ==
  LET e == [c EXCEPT !.errors = Append(@, <<c.backend, stage>>)] IN
  IF c.backend \in {"webllm", "wllama"} /\ Len(c.started) < 3
  THEN /\ call' = [call EXCEPT ![r] =
                     [Enter(e, "wllama") EXCEPT
                        !.pc = "import",
                        !.log = @ \cup {"Skipping text generation with WebLLM",
                                        "Starting text generation with Wllama"}]]
       /\ UNCHANGED textGenerationState
  ELSE /\ call' = [call EXCEPT ![r] =
                     [e EXCEPT !.pc = "finally",
                               !.log = @ \cup {"Error generating text"}]]
       /\ textGenerationState' = "failed"

\* an error thrown at `stage` of the current backend reaches the catch clauses of
\* prepareTextGeneration: lines 52-55 around generateTextWithWebLlm, lines 62-66
\* around everything else
Catch(r, c, stage) ==
  LET e == [c EXCEPT !.errors = Append(@, <<c.backend, stage>>)] IN
  IF c.backend = "webllm"
  THEN /\ call' = [call EXCEPT ![r] =
                     [Enter(e, "wllama") EXCEPT
                        !.pc = "import",
                        !.log = @ \cup {"Skipping text generation with WebLLM",
                                        "Starting text generation with Wllama"}]]
       /\ UNCHANGED textGenerationState
  ELSE /\ call' = [call EXCEPT ![r] =
                     [e EXCEPT !.pc = "finally",
                               !.log = @ \cup {"Error generating text"}]]
       /\ textGenerationState' = "failed"

\* the backend returned: lines 59-61, then the await of line 66
Return(r, c) ==
  /\ textGenerationState' = FinalState(textGenerationState)
  /\ call' = [call EXCEPT ![r] = [c EXCEPT !.pc = "finally"]]

(***************************************************************************)
(* prepareTextGeneration, line 39 resumes: lines 41-57 choose the backend. *)
(* generateTextWithOpenAI runs to the await inside canStartResponding; the *)
(* in-browser backends run to their dynamic import (lines 127, 217).       *)
(***************************************************************************)
Dispatch(r) ==
  /\ call[r].pc = "loadingModel"
  /\ LET b == SelectBackend(settings, isWebGPUAvailable)
         c == Enter(call[r], b)
     IN CASE b = "openai" -> StartResponding(r, c)
          [] b = "webllm" ->
               /\ call' = [call EXCEPT ![r] = [c EXCEPT !.pc = "import"]]
               /\ UNCHANGED textGenerationState
          [] b = "wllama" ->
               /\ call' = [call EXCEPT ![r] =
                             [c EXCEPT !.pc = "import",
                                       !.log = @ \cup {"Skipping text generation with WebLLM",
                                                       "Starting text generation with Wllama"}]]
               /\ UNCHANGED textGenerationState
  /\ NoForward
  /\ CallFrame


(***************************************************************************)
(* generateTextWithWebLlm (lines 125-214) and generateTextWithWllama       *)
(* (lines 216-291) up to the completion request.                           *)
(***************************************************************************)
\* the log entries of a failure of initializeWllama (wllama module): the catch
\* of createWllamaInstance (lines 32-39) when the constructor threw, and the
\* catch of initializeWllama (lines 54-61) in both cases
FailureLog(inCreate) ==
  {"Failed to initialize Wllama"}
    \cup (IF inCreate THEN {"Failed to create Wllama instance"} ELSE {})

\* a faulty variant of initializeWllamaCatch: the `throw error` of line 60 is
\* missing, so that initializeWllama logs the failure and returns undefined to
\* generateTextWithWllama, which goes on at line 244
initializeWllamaCatchSwallowing(r, c, inCreate) ==
  LET e == [c EXCEPT !.log = @ \cup FailureLog(inCreate)] IN
  IF settings.enableAiResponse
  THEN StartResponding(r, e)
  ELSE /\ call' = [call EXCEPT ![r] = [e EXCEPT !.pc = "exit"]]
       /\ UNCHANGED textGenerationState

\* initializeWllama fails (wllama module, lines 49-61): the failure is logged
\* and rethrown to generateTextWithWllama (line 223), whose caller catches it
initializeWllamaCatch(r, c, inCreate) ==
  Catch(r, [c EXCEPT !.log = @ \cup FailureLog(inCreate)], "init")

\* the dynamic import resolved (lines 127, 217): WebLLM asks the cache (line 137),
\* Wllama reads the configured model (line 221) and calls initializeWllama (line
\* 223), which logs, creates the Wllama instance (the constructor may throw)
\* and awaits loadModelFromHF (wllama module, lines 47-51)
ModuleImported(r) ==
  /\ call[r].pc = "import"
  /\ IF call[r].backend = "webllm"
     THEN /\ call' = [call EXCEPT ![r].pc = "hasModelInCache",
                                  ![r].log = @ \cup {"Selected WebLLM model"}]
          /\ UNCHANGED textGenerationState
     ELSE LET c == [call[r] EXCEPT !.log = @ \cup {"Initializing Wllama"}] IN
          \/ \E model \in StopStringChoices :
               /\ call' = [call EXCEPT ![r] = [c EXCEPT !.pc = "init",
                                                        !.stopStrings = model]]
               /\ UNCHANGED textGenerationState
          \/ initializeWllamaCatch(r, c, TRUE)
  /\ NoForward
  /\ CallFrame

\* hasModelInCache resolved (lines 137-148)
CacheChecked(r) ==
  /\ call[r].pc = "hasModelInCache"
  /\ \E isModelCached \in BOOLEAN :
       IF isModelCached
       THEN /\ textGenerationState' = "preparingToGenerate"
            /\ call' = [call EXCEPT ![r].pc = "cachedUi"]
       ELSE /\ call' = [call EXCEPT ![r].pc = "init"]
            /\ UNCHANGED textGenerationState
  /\ NoForward
  /\ CallFrame

\* line 143 resumes: the engine is being created (lines 161-170)
CachedUiUpdated(r) ==
  /\ call[r].pc = "cachedUi"
  /\ call' = [call EXCEPT ![r].pc = "init"]
  /\ UNCHANGED textGenerationState
  /\ NoForward
  /\ CallFrame

\* the engine was created (line 170) or initializeWllama returned (line 242);
\* lines 172 and 244 read enableAiResponse again
Initialized(r) ==
  /\ call[r].pc = "init"
  /\ LET c == IF call[r].backend = "webllm"
              THEN [call[r] EXCEPT !.engine = "live"]
              ELSE [call[r] EXCEPT !.wllama = "live",
                                   !.log = @ \cup {"Wllama initialized successfully"}]
     IN IF settings.enableAiResponse
        THEN StartResponding(r, c)
        ELSE /\ call' = [call EXCEPT ![r] =
                           [c EXCEPT !.pc = IF c.backend = "webllm"
                                            THEN "runtimeStatsText" ELSE "exit"]]
             /\ UNCHANGED textGenerationState
  /\ NoForward
  /\ CallFrame

(***************************************************************************)
(* canStartResponding, lines 351-352, and what follows it in each backend. *)
(***************************************************************************)
\* line 351 resumes: getSearchPromise() is read and awaited (line 352)
SearchPromiseRead(r) ==
  /\ call[r].pc = "canStartResponding"
  /\ call' = [call EXCEPT ![r].pc = "getSearchPromise", ![r].awaited = searchPromise]
  /\ UNCHANGED textGenerationState
  /\ NoForward
  /\ CallFrame

\* the awaited search promise settled: resolved, the backend goes on to
\* "preparingToGenerate" (lines 87, 175, 247); rejected, the await throws
SearchAwaited(r) ==
  /\ call[r].pc = "getSearchPromise"
  /\ call[r].awaited # 0
  /\ \/ /\ search[call[r].awaited].pc = "resolved"
        /\ textGenerationState' = "preparingToGenerate"
        /\ call' = [call EXCEPT ![r].pc = "preparingToGenerate"]
     \/ /\ search[call[r].awaited].pc = "rejected"
        /\ Catch(r, call[r], "getSearchPromise")
  /\ NoForward
  /\ CallFrame

\* lines 89, 177, 249 resume: OpenAI and WebLLM issue the completion request
\* (lines 91, 179); Wllama builds its prompt first (line 251).  The prompt's
\* arguments, getFormattedSearchResults() and getQuery(), are evaluated here.
GenerationPrepared(r) ==
  /\ call[r].pc = "preparingToGenerate"
  /\ call' = [call EXCEPT
                ![r].pc = IF call[r].backend = "wllama" THEN "buildPrompt" ELSE "create",
                ![r].requested = call[r].backend # "wllama",
                ![r].prompt = [query |-> query, results |-> getFormattedSearchResults]]
  /\ UNCHANGED textGenerationState
  /\ NoForward
  /\ CallFrame

\* model.buildPrompt resolved: wllama.createCompletion is called (line 259)
PromptBuilt(r) ==
  /\ call[r].pc = "buildPrompt"
  /\ call' = [call EXCEPT ![r].pc = "stream", ![r].requested = TRUE]
  /\ UNCHANGED textGenerationState
  /\ NoForward
  /\ CallFrame

\* chat.completions.create resolved with the stream (lines 91-106, 179-190)
CompletionCreated(r) ==
  /\ call[r].pc = "create"
  /\ call' = [call EXCEPT ![r].pc = "stream"]
  /\ UNCHANGED textGenerationState
  /\ NoForward
  /\ CallFrame

(***************************************************************************)
(* The token loops.                                                        *)
(***************************************************************************)
\* generateTextWithOpenAI, one turn of the loop of lines 108-120
OpenAiChunk(r) ==
  /\ call[r].pc = "stream"
  /\ call[r].backend = "openai"
  /\ call[r].chunks < MaxChunks
  /\ \E deltaContent \in Deltas :
       LET streamedMessage == call[r].streamedMessage \o deltaContent IN
       /\ call' = [call EXCEPT
                     ![r].streamedMessage = streamedMessage,
                     ![r].chunks = @ + 1,
                     ![r].aborts = IF ShouldAbort(textGenerationState) THEN @ + 1 ELSE @]
       /\ textGenerationState' = StateOnToken(textGenerationState)
       /\ updateResponseRateLimited(streamedMessage)
  /\ CallFrame

\* generateTextWithWebLlm, one turn of the loop of lines 192-204, up to the
\* await of engine.interruptGenerate() when the state is "interrupted"
WebLlmChunk(r) ==
  /\ call[r].pc = "stream"
  /\ call[r].backend = "webllm"
  /\ call[r].chunks < MaxChunks
  /\ \E deltaContent \in Deltas :
       LET streamedMessage == call[r].streamedMessage \o deltaContent IN
       IF ShouldAbort(textGenerationState)
       THEN /\ call' = [call EXCEPT
                          ![r].streamedMessage = streamedMessage,
                          ![r].chunks = @ + 1,
                          ![r].aborts = @ + 1,
                          ![r].pc = "interruptGenerate"]
            /\ UNCHANGED textGenerationState
            /\ NoForward
       ELSE /\ call' = [call EXCEPT
                          ![r].streamedMessage = streamedMessage,
                          ![r].chunks = @ + 1]
            /\ textGenerationState' = StateOnToken(textGenerationState)
            /\ updateResponseRateLimited(streamedMessage)
  /\ CallFrame

\* engine.interruptGenerate() resolved: line 203, then the loop goes on
InterruptGenerated(r) ==
  /\ call[r].pc = "interruptGenerate"
  /\ call' = [call EXCEPT ![r].pc = "stream"]
  /\ UNCHANGED textGenerationState
  /\ updateResponseRateLimited(call[r].streamedMessage)
  /\ CallFrame

\* generateTextWithWllama, the onNewToken callback of lines 262-284; the library
\* stops generating once abortSignal() was called
WllamaNewToken(r) ==
  /\ call[r].pc = "stream"
  /\ call[r].backend = "wllama"
  /\ call[r].chunks < MaxChunks
  /\ call[r].aborts = 0
  /\ \E piece \in Deltas :
       LET currentText == call[r].currentText \o piece
           streamedMessage == TextAfterStopStrings(call[r].stopStrings, currentText)
       IN
       /\ call' = [call EXCEPT
                     ![r].currentText = currentText,
                     ![r].streamedMessage = streamedMessage,
                     ![r].chunks = @ + 1,
                     ![r].aborts = @ + (IF ShouldAbort(textGenerationState) THEN 1 ELSE 0)
                                     + (IF StopStringsHit(call[r].stopStrings, currentText) # {}
                                        THEN 1 ELSE 0)]
       /\ textGenerationState' = StateOnToken(textGenerationState)
       /\ updateResponseRateLimited(streamedMessage)
  /\ CallFrame

\* a faulty variant of StreamEnded: the updateResponse after the loop (lines
\* 122, 206, 287) is missing
StreamEndedWithoutFlush(r) ==
  /\ call[r].pc = "stream"
  /\ NoForward
  /\ CASE call[r].backend = "openai" -> Return(r, call[r])
       [] call[r].backend = "webllm" ->
            /\ call' = [call EXCEPT ![r].pc = "runtimeStatsText"]
            /\ UNCHANGED textGenerationState
       [] call[r].backend = "wllama" ->
            /\ call' = [call EXCEPT ![r].pc = "exit"]
            /\ UNCHANGED textGenerationState
  /\ CallFrame

\* the stream ended: updateResponse(streamedMessage) (lines 122, 206, 287); then
\* OpenAI returns, WebLLM awaits runtimeStatsText (line 210), Wllama awaits
\* exit (line 290)
StreamEnded(r) ==
  /\ call[r].pc = "stream"
  /\ response' = call[r].streamedMessage
  /\ UNCHANGED <<lastUpdateTime, rlForwards>>
  /\ CASE call[r].backend = "openai" -> Return(r, call[r])
       [] call[r].backend = "webllm" ->
            /\ call' = [call EXCEPT ![r].pc = "runtimeStatsText"]
            /\ UNCHANGED textGenerationState
       [] call[r].backend = "wllama" ->
            /\ call' = [call EXCEPT ![r].pc = "exit"]
            /\ UNCHANGED textGenerationState
  /\ CallFrame

\* engine.runtimeStatsText() resolved: lines 209-213, then lines 59-66
StatsRead(r) ==
  /\ call[r].pc = "runtimeStatsText"
  /\ Return(r, [call[r] EXCEPT !.engine = "unloaded",
                               !.log = @ \cup {"WebLLM finished generating the response"}])
  /\ NoForward
  /\ CallFrame

\* wllama.exit() resolved (line 290), then lines 59-66
Exited(r) ==
  /\ call[r].pc = "exit"
  /\ Return(r, [call[r] EXCEPT !.wllama = "exited"])
  /\ NoForward
  /\ CallFrame

\* the awaits on a library that can reject
LibraryStages ==
  {"import", "hasModelInCache", "init", "create", "buildPrompt", "stream",
   "interruptGenerate", "runtimeStatsText", "exit"}

\* the awaited library call rejects (or the stream throws); loadModelFromHF
\* rejects inside initializeWllama
Throws(r) ==
  /\ call[r].pc \in LibraryStages
  /\ IF call[r].backend = "wllama" /\ call[r].pc = "init"
     THEN initializeWllamaCatch(r, call[r], FALSE)
     ELSE Catch(r, call[r], call[r].pc)
  /\ NoForward
  /\ CallFrame

\* line 66 resumes: lines 69-74, and prepareTextGeneration returns
Finished(r) ==
  /\ call[r].pc = "finally"
  /\ call' = [call EXCEPT ![r].pc = "done",
                          ![r].log = @ \cup {"Response generation took"}]
  /\ UNCHANGED textGenerationState
  /\ NoForward
  /\ CallFrame

(***************************************************************************)
(* The environment.                                                        *)
(***************************************************************************)
EnvFrame ==
  UNCHANGED <<query, response, searchResults, searchPromise, searchState,
              isWebGPUAvailable, lastUpdateTime, call, search, rlForwards, menu>>

\* the user stops a generation in progress: updateTextGenerationState("interrupted")
\* while a call is between line 37 and its return
Interrupt ==
  /\ \E r \in Calls : InFlight(r)
  /\ textGenerationState \in ProgressStates
  /\ textGenerationState' = "interrupted"
  /\ UNCHANGED <<settings, now, ticks>>
  /\ EnvFrame

\* the user switches the AI response off or on while a call has still to read
\* the setting again (lines 172, 244)
ChangeSettings ==
  /\ \E r \in Calls :
       call[r].pc \in {"import", "hasModelInCache", "cachedUi", "init"}
  /\ settings' = [settings EXCEPT !.enableAiResponse = ~@]
  /\ UNCHANGED <<textGenerationState, now, ticks>>
  /\ EnvFrame

\* Date.now() advances while a stream is open
Tick ==
  /\ ticks < MaxTicks
  /\ \E r \in Calls : call[r].pc \in {"stream", "interruptGenerate"}
  /\ \E d \in TickSteps : now' = now + d
  /\ ticks' = ticks + 1
  /\ UNCHANGED <<settings, textGenerationState>>
  /\ EnvFrame

(***************************************************************************)
(* Specifications.                                                         *)
(***************************************************************************)
CallStep(r) ==
  \/ Call(r)
  \/ Dispatch(r)
  \/ ModuleImported(r)
  \/ CacheChecked(r)
  \/ CachedUiUpdated(r)
  \/ Initialized(r)
  \/ SearchPromiseRead(r)
  \/ SearchAwaited(r)
  \/ GenerationPrepared(r)
  \/ PromptBuilt(r)
  \/ CompletionCreated(r)
  \/ OpenAiChunk(r)
  \/ WebLlmChunk(r)
  \/ InterruptGenerated(r)
  \/ WllamaNewToken(r)
  \/ StreamEnded(r)
  \/ StatsRead(r)
  \/ Exited(r)
  \/ Throws(r)
  \/ Finished(r)

SearchStep(r) ==
  \/ SearchIssued(r)
  \/ FirstSearchReturns(r)
  \/ SecondSearchReturns(r)
  \/ SearchRejects(r)
  \/ SearchResolves(r)

\* one invocation of prepareTextGeneration, running alone
Next ==
  \/ CallStep(1)
  \/ SearchStep(1)
  \/ Interrupt
  \/ ChangeSettings
  \/ Tick

Spec == Init /\ [][Next]_vars

\* every await of the call and of its search eventually resolves or rejects
FairSpec == Spec /\ WF_vars(CallStep(1)) /\ WF_vars(SearchStep(1))

(***************************************************************************)
(* Two invocations: prepareTextGeneration is called again, for a new       *)
(* query, while the first invocation may still be suspended at an await.   *)
(* Both run on the remote backend, whose calls do not fail here.           *)
(***************************************************************************)
InitOverlap ==
  /\ Init
  /\ settings.enableAiResponse
  /\ settings.inferenceType = "openai"
  /\ ~settings.enableWebGpu
  /\ ~isWebGPUAvailable

OverlapStep(r) ==
  \/ Call(r)
  \/ Dispatch(r)
  \/ SearchPromiseRead(r)
  \/ SearchAwaited(r)
  \/ GenerationPrepared(r)
  \/ CompletionCreated(r)
  \/ OpenAiChunk(r)
  \/ StreamEnded(r)
  \/ Finished(r)
  \/ SearchIssued(r)
  \/ FirstSearchReturns(r)
  \/ SecondSearchReturns(r)
  \/ SearchRejects(r)
  \/ SearchResolves(r)

NextOverlap == \E r \in Calls : OverlapStep(r)

SpecOverlap == InitOverlap /\ [][NextOverlap]_vars


(***************************************************************************)
(* MenuButton (MenuButton.tsx, lines 7-52).  An event handler, the renders  *)
(* its state updates cause, their commit and the effect cleanups that run  *)
(* in it are one step.                                                     *)
(***************************************************************************)
MenuFrame ==
  UNCHANGED <<query, settings, textGenerationState, response, searchResults,
              searchPromise, searchState, isWebGPUAvailable, lastUpdateTime,
              now, ticks, call, search, rlForwards>>

\* a faulty variant of ShowsDrawer: the subtree is mounted only while the
\* drawer is open
ShowsDrawerWhileOpenOnly(isDrawerOpen, isDrawerLoaded) == isDrawerOpen

\* line 45: the condition under which the Suspense subtree is rendered
ShowsDrawer(isDrawerOpen, isDrawerLoaded) == isDrawerOpen \/ isDrawerLoaded

\* line 41: the loading prop of the button
ShowsLoading(isDrawerOpen, isDrawerLoaded) == isDrawerOpen /\ ~isDrawerLoaded

\* handleDrawerLoad, lines 21-26, as created by a render that saw
\* isDrawerLoaded = closedOver
handleDrawerLoad(m, closedOver) ==
  IF ~closedOver
  THEN [m EXCEPT !.log = Append(@, "Menu drawer loaded"), !.isDrawerLoaded = TRUE]
  ELSE m

\* one render of MenuButton with the state of m, and its commit (lines 28-51).
\* DrawerFallback is a new component type in every render, so a mounted
\* fallback is unmounted by the commit, also when the drawer is still pending;
\* its effect cleanup (line 30) calls the handleDrawerLoad it closed over.  A
\* state update made by the cleanup causes another render.
RECURSIVE Render(_)
Render(m) ==
  LET show == ShowsDrawer(m.isDrawerOpen, m.isDrawerLoaded)
      lazy == IF show /\ m.MenuDrawer = "unrequested" THEN "pending" ELSE m.MenuDrawer
      suspended == show /\ lazy # "resolved"
      cleaned == IF m.fallback # <<>> THEN handleDrawerLoad(m, m.fallback[1]) ELSE m
      committed == [cleaned EXCEPT
                      !.MenuDrawer = lazy,
                      !.mounted = show,
                      !.fallback = IF suspended THEN <<m.isDrawerLoaded>> ELSE <<>>,
                      !.loading = ShowsLoading(m.isDrawerOpen, m.isDrawerLoaded)]
  IN IF committed.isDrawerLoaded # m.isDrawerLoaded THEN Render(committed) ELSE committed

\* the user clicks the button: openDrawer, lines 11-14; setting the state to
\* the value it has causes no render
openDrawer ==
  /\ Len(menu.log) < MaxMenuEvents
  /\ LET m == [menu EXCEPT !.log = Append(@, "User opened the menu"),
                           !.isDrawerOpen = TRUE]
     IN menu' = IF menu.isDrawerOpen THEN m ELSE Render(m)
  /\ MenuFrame

\* the mounted drawer calls onClose: closeDrawer, lines 16-19
closeDrawer ==
  /\ Len(menu.log) < MaxMenuEvents
  /\ menu.mounted /\ menu.MenuDrawer = "resolved" /\ menu.isDrawerOpen
  /\ menu' = Render([menu EXCEPT !.log = Append(@, "User closed the menu"),
                                 !.isDrawerOpen = FALSE])
  /\ MenuFrame

\* the import of line 5 resolved: the Suspense boundary renders MenuDrawer in
\* place of the fallback, whose cleanup runs
MenuDrawerLoaded ==
  /\ menu.MenuDrawer = "pending"
  /\ menu' = Render([menu EXCEPT !.MenuDrawer = "resolved"])
  /\ MenuFrame

NextMenu == openDrawer \/ closeDrawer \/ MenuDrawerLoaded

\* the settings play no part in the menu
InitMenu == InitOverlap /\ settings.searchResultsToConsider = 0

SpecMenu == InitMenu /\ [][NextMenu]_vars

(***************************************************************************)
(* Claims.                                                                 *)
(***************************************************************************)
StartedSet(r) == {call[r].started[i] : i \in DOMAIN call[r].started}

\* the stages of a backend that initialize its model: loading the library,
\* asking the model cache, creating the engine / initializeWllama
InitStages == {"import", "hasModelInCache", "init"}

\* the stage that loads the model itself: CreateWebWorkerMLCEngine /
\* CreateMLCEngine (lines 161-170), initializeWllama (line 223).  The claim as
\* stated is refuted on this narrow reading of "model initialization"; what
\* holds is shown on the wide one, InitStages.
ModelLoadingStages == {"init"}

\* C1: prepareTextGeneration picks the backend by configuration.  With
\* inferenceType "openai" only the OpenAI backend is ever invoked; otherwise
\* OpenAI is never invoked, WebLLM is invoked if and only if WebGPU is available
\* and enableWebGpu is set, and Wllama is what is invoked when either is false.
C1_BackendByConfiguration ==
  \A r \in Calls :
    call[r].started # <<>> =>
      IF settings.inferenceType = "openai"
      THEN StartedSet(r) = {"openai"}
      ELSE /\ "openai" \notin StartedSet(r)
           /\ "webllm" \in StartedSet(r) <=> (isWebGPUAvailable /\ settings.enableWebGpu)
           /\ ~(isWebGPUAvailable /\ settings.enableWebGpu) => StartedSet(r) = {"wllama"}

\* a request without WebGPU has run on Wllama alone and returned
C1_Witness ==
  /\ call[1].pc = "done"
  /\ call[1].started = <<"wllama">>
  /\ settings.inferenceType # "openai"
  /\ ~isWebGPUAvailable

\* C2, as claimed: an initialization failure of whichever backend was selected
\* makes the request fall back to a next backend, which is started after it,
\* instead of ending in the failed state.
C2_InitFailureAlwaysFallsBack ==
  \A r \in Calls : \A i \in DOMAIN call[r].errors :
    call[r].errors[i][2] \in ModelLoadingStages =>
      /\ call[r].started[Len(call[r].started)] # call[r].errors[i][1]
      /\ call[r].pc = "finally" => textGenerationState # "failed"

\* C2, amended: an initialization failure of the WebGPU engine (WebLLM) makes
\* the request fall back to the CPU/WASM engine (Wllama), started once for the
\* same request, without the state becoming "failed" by that failure; an
\* initialization failure of Wllama, which has no next backend, ends the request
\* in "failed"; the remote API is neither fallen back from nor fallen back to.
C2_WebLlmInitFailureFallsBackToWllama ==
  \A r \in Calls : \A i \in DOMAIN call[r].errors :
    call[r].errors[i][2] \in InitStages =>
      /\ call[r].errors[i][1] \in {"webllm", "wllama"}
      /\ call[r].errors[i][1] = "webllm" =>
           /\ call[r].started = <<"webllm", "wllama">>
           /\ (i = Len(call[r].errors) /\ call[r].pc # "done") =>
                /\ call[r].backend = "wllama"
                /\ call[r].pc # "finally" => textGenerationState # "failed"
      /\ call[r].errors[i][1] = "wllama" =>
           /\ i = Len(call[r].errors)
           /\ call[r].pc \in {"finally", "done"}
           /\ textGenerationState = "failed"
           /\ call[r].started[Len(call[r].started)] = "wllama"

\* the WebLLM engine failed to initialize and Wllama is streaming for the request
C2_Witness ==
  /\ call[1].errors = << <<"webllm", "init">> >>
  /\ call[1].backend = "wllama"
  /\ call[1].pc = "stream"
  /\ textGenerationState = "generating"

\* C3, as claimed: every error that is not a model-initialization error is
\* logged as the generation's error, leaves the state "failed" when the
\* request returns, and no backend is started after it.
C3_OtherErrorsEndFailed ==
  \A r \in Calls : \A i \in DOMAIN call[r].errors :
    call[r].errors[i][2] \notin InitStages =>
      /\ "Error generating text" \in call[r].log
      /\ call[r].started[Len(call[r].started)] = call[r].errors[i][1]
      /\ call[r].pc \in {"finally", "done"}
      /\ textGenerationState = "failed"

\* C4: within one request there is at most one fallback hop and no retry: each
\* backend is started at most once, at most two in total (WebLLM, then Wllama),
\* and an error of Wllama ends the request in "failed" with nothing started after.
C4_SingleFallbackHop ==
  \A r \in Calls :
    /\ Len(call[r].started) <= 2
    /\ Cardinality(StartedSet(r)) = Len(call[r].started)
    /\ Len(call[r].started) = 2 => call[r].started = <<"webllm", "wllama">>
    /\ \A i \in DOMAIN call[r].errors :
         call[r].errors[i][1] = "wllama" =>
           /\ i = Len(call[r].errors)
           /\ call[r].pc \in {"finally", "done"}
           /\ textGenerationState = "failed"

\* Wllama, reached by fallback from WebLLM, threw while streaming
C4_Witness ==
  /\ call[1].started = <<"webllm", "wllama">>
  /\ Len(call[1].errors) = 2
  /\ call[1].errors[2] = <<"wllama", "stream">>
  /\ call[1].pc = "done"


\* the stages of a backend from "preparingToGenerate" after canStartResponding on
AfterStartResponding ==
  {"preparingToGenerate", "create", "buildPrompt", "stream", "interruptGenerate"}

\* C5, as claimed: search precedes generation.  When canStartResponding found
\* searchResultsToConsider > 0, the backend is past it (the state was set to
\* "preparingToGenerate" after the await, or the completion request was issued)
\* only if the search started by the same call has resolved, which it does
\* after publishing its results (lines 341-345).
C5_SearchPrecedesGeneration ==
  \A r \in Calls :
    (call[r].considered /\ (call[r].requested \/ call[r].pc \in AfterStartResponding)) =>
      search[r].pc = "resolved"

\* for a call that runs alone the same holds, and the published results are
\* those of its search
SearchPrecedesGenerationOfLoneCall ==
  (call[1].considered /\ (call[1].requested \/ call[1].pc \in AfterStartResponding)) =>
    /\ search[1].pc = "resolved"
    /\ searchResults = search[1].results

\* the completion request was issued after the awaited search resolved with a result
C5_Witness ==
  /\ call[1].considered
  /\ call[1].requested
  /\ call[1].pc = "stream"
  /\ search[1].pc = "resolved"
  /\ call[1].prompt.results = <<"q1">>

\* a token handler ran in this step for call r
TokenArrived(r) == call'[r].chunks = call[r].chunks + 1

\* C6: cancellation is polled per token.  In every backend, a token that
\* arrives while the state is "interrupted" invokes the backend's abort and
\* leaves the state "interrupted"; a token that arrives in any other state
\* invokes no abort, except the stop-string abort of Wllama.
C6_AbortPolledPerToken ==
  [][\A r \in Calls :
       TokenArrived(r) =>
         IF textGenerationState = "interrupted"
         THEN /\ call'[r].aborts > call[r].aborts
              /\ textGenerationState' = "interrupted"
         ELSE \/ call'[r].aborts = call[r].aborts
              \/ /\ call[r].backend = "wllama"
                 /\ StopStringsHit(call[r].stopStrings, call'[r].currentText) # {}
                 /\ call'[r].aborts = call[r].aborts + 1]_vars

\* two tokens of the OpenAI stream arrived while the state was "interrupted",
\* and the abort was invoked for each
C6_Witness ==
  /\ call[1].backend = "openai"
  /\ call[1].pc = "stream"
  /\ call[1].chunks = 2
  /\ call[1].aborts = 2
  /\ textGenerationState = "interrupted"

\* C7, as claimed: "interrupted" is terminal within a request: once set, the
\* state is never overwritten by "awaitingSearchResults", "preparingToGenerate",
\* "generating" or "completed".
C7_InterruptedIsNeverOverwritten ==
  [][textGenerationState = "interrupted" =>
       textGenerationState' \notin {"awaitingSearchResults", "preparingToGenerate",
                                    "generating", "completed"}]_vars

\* C8: every call with a non-empty query and the AI response enabled eventually
\* returns, with the state "completed", "failed" or "interrupted".
C8_CallEndsInTerminalState ==
  \A r \in Calls :
    (call[r].pc = "loadingModel") ~>
      (call[r].pc = "done" /\ textGenerationState \in TerminalStates)

\* a call that generated an answer has returned
C8_Witness ==
  /\ call[1].pc = "done"
  /\ call[1].requested
  /\ textGenerationState = "completed"

\* the place of a state in the order of the generation states
Stage(st) ==
  CASE st = "idle" -> 0
    [] st = "loadingModel" -> 1
    [] st = "awaitingSearchResults" -> 2
    [] st = "preparingToGenerate" -> 3
    [] st = "generating" -> 4
    [] st \in TerminalStates -> 5

\* C9, as claimed: within a request the state written by the request only
\* moves forward through loading model, awaiting search, preparing to
\* generate, generating, completed/failed/interrupted.
C9_StateOnlyMovesForward ==
  [][textGenerationState # "interrupted" =>
       Stage(textGenerationState') >= Stage(textGenerationState)]_vars

\* C10: any two consecutive forwards to updateResponse made by
\* updateResponseRateLimited are at least 1000 / 12 ms apart.
C10_RateLimitedForwardsAreSpaced ==
  Len(rlForwards) = 2 =>
    updateIntervalDenominator * (rlForwards[2] - rlForwards[1]) >= updateIntervalNumerator

\* the rate limiter forwarded both tokens of a stream, the clock having
\* advanced by the interval between them
C10_Witness ==
  /\ Len(rlForwards) = 2
  /\ \E r \in Calls : call[r].pc = "stream" /\ call[r].chunks = 2

\* the call is suspended at an await after which it still writes the generation
\* state, the response or reads the search promise (lines 39-64)
HasPendingWrites(r) == call[r].pc \notin {"idle", "done", "finally"}

\* C11, as claimed: the generation state, the response and the search promise
\* are owned by one invocation at a time: no two invocations of
\* prepareTextGeneration have writes pending at the same moment.
C11_OneOwnerAtATime ==
  \A r1, r2 \in Calls :
    (HasPendingWrites(r1) /\ HasPendingWrites(r2)) => r1 = r2

\* prepareTextGeneration was invoked for call r in this step
Invoked(r) == call[r].pc = "idle" /\ call'[r].pc # "idle"

\* C12: the generated answer is optional.  With enableAiResponse false, an
\* invocation with a non-empty query resets the response and the search
\* results and starts the search, leaves the generation state as it was, enters
\* no backend and returns; nothing changes the generation state afterwards.
C12_AiResponseIsOptional ==
  [][\A r \in Calls :
       /\ (Invoked(r) /\ query' # "" /\ ~settings.enableAiResponse) =>
            /\ response' = <<>>
            /\ searchResults' = <<>>
            /\ search'[r].pc = "ui1"
            /\ search'[r].query = query'
            /\ searchPromise' = r
            /\ searchState' = "running"
            /\ UNCHANGED textGenerationState
            /\ call'[r].pc = "done"
            /\ call'[r].started = <<>>
       /\ (call[r].pc = "done" /\ call[r].started = <<>>) =>
            /\ call'[r] = call[r]
            /\ UNCHANGED textGenerationState]_vars

\* with the AI response disabled, a query was searched and no answer generated
C12_Witness ==
  /\ ~settings.enableAiResponse
  /\ query = "q1"
  /\ call[1].pc = "done"
  /\ call[1].started = <<>>
  /\ search[1].pc = "resolved"
  /\ searchResults = <<"q1">>
  /\ textGenerationState = "idle"

\* s is a prefix of t
IsPrefix(s, t) == Len(s) <= Len(t) /\ SubSeq(t, 1, Len(s)) = s

\* the token stream of call r ended in this step without throwing
StreamEndsNormally(r) ==
  /\ call[r].pc = "stream"
  /\ call'[r].pc \in {"finally", "runtimeStatsText", "exit"}
  /\ call'[r].errors = call[r].errors

\* updateResponseRateLimited forwarded its text in this step
Forwarded == lastUpdateTime' # lastUpdateTime \/ rlForwards' # rlForwards

\* C13: final flush.  When a stream ends without throwing, the value passed to
\* updateResponse is the whole accumulated message.  During a stream of OpenAI
\* or WebLLM the message only grows at its end and every forward passes the
\* message accumulated so far, so that every forwarded value, and the last one
\* in particular, is a prefix of the final value.
C13_FinalFlush ==
  [][\A r \in Calls :
       /\ StreamEndsNormally(r) =>
            /\ response' = call[r].streamedMessage
            /\ call'[r].streamedMessage = call[r].streamedMessage
            /\ call[r].backend \in {"openai", "webllm"} => IsPrefix(response, response')
       /\ (/\ call[r].pc \in {"stream", "interruptGenerate"}
           /\ call[r].backend \in {"openai", "webllm"}
           /\ call'[r].backend = call[r].backend) =>
            /\ IsPrefix(call[r].streamedMessage, call'[r].streamedMessage)
            /\ Forwarded => response' = call'[r].streamedMessage]_vars

\* the rate limiter forwarded the first token and dropped the second, and the
\* end of the stream passed the whole message
C13_Witness ==
  /\ call[1].backend = "openai"
  /\ call[1].pc = "finally"
  /\ call[1].errors = <<>>
  /\ call[1].streamedMessage = <<"a", "a">>
  /\ Len(rlForwards) = 1
  /\ response = <<"a", "a">>

\* C14, as claimed: request consistency under overlap.  When a second call for
\* a different query starts while the first is in flight, the completion
\* request of a call never carries the query of the other call, is never issued
\* on the other call's search having resolved, and never formats the other
\* call's search results.
C14_RequestUsesOwnQueryAndResults ==
  \A r, p \in Calls :
    (r # p /\ call[r].requested /\ search[p].query # "") =>
      /\ call[r].prompt.query # search[p].query
      /\ call[r].awaited # p
      /\ call[r].prompt.results # <<>> => call[r].prompt.results # search[p].results

\* wllama.exit() was called for call r and rejected (line 290)
ExitRejected(r) ==
  \E i \in DOMAIN call[r].errors : call[r].errors[i] = <<"wllama", "exit">>

\* C15, as claimed: engine release.  Every engine initialized during a request
\* has been released (engine.unload, wllama.exit) when prepareTextGeneration
\* returns, and at most one initialized engine is live at any time.  A
\* wllama.exit() that was called and rejected counts as a release.
C15_EnginesAreReleased ==
  \A r \in Calls :
    /\ call[r].pc = "done" =>
         /\ call[r].engine # "live"
         /\ call[r].wllama = "live" => ExitRejected(r)
    /\ ~(call[r].engine = "live" /\ call[r].wllama = "live")

\* the promise of startSearch for call r has settled
SearchSettled(r) == search[r].pc \in {"resolved", "rejected"}

\* C16, as claimed: search state consistency.  startSearch sets the search
\* state to "running" before it searches; once its promise has settled the
\* state is not "running" but "failed" if the published text results are empty
\* and "completed" otherwise; the second search follows a first one that
\* returned no text result, and no search follows the second.
C16_SearchStateConsistency ==
  [][\A r \in Calls :
       /\ (search[r].pc = "idle" /\ search'[r].pc # "idle") => searchState' = "running"
       /\ search'[r].pc = "search1" => searchState' = "running"
       /\ (search'[r].pc = "search2" /\ search[r].pc # "search2") =>
            (search[r].pc = "search1" /\ search'[r].results = <<>>)
       /\ search[r].pc = "search2" => search'[r].pc \in {"search2", "ui2", "rejected"}
       /\ SearchSettled(r)' =>
            /\ searchState' # "running"
            /\ searchState' = "failed" <=> searchResults' = <<>>
            /\ searchState' = "completed" <=> searchResults' # <<>>]_vars

\* C17: prepareTextGeneration called with an empty query is a no-op: it
\* changes none of the response, the search results, the search promise, the
\* search state and the generation state, starts no search, enters no backend
\* and returns; nothing happens for that call afterwards.
C17_EmptyQueryIsNoOp ==
  [][\A r \in Calls :
       /\ (Invoked(r) /\ query' = "") =>
            /\ UNCHANGED <<response, searchResults, searchPromise, searchState,
                           textGenerationState, search>>
            /\ call'[r] = [call[r] EXCEPT !.pc = "done"]
       /\ (call[r].pc = "done" /\ search[r].pc = "idle") =>
            /\ call'[r] = call[r]
            /\ search'[r] = search[r]]_vars

\* the second invocation found the query empty and returned, while the first
\* is streaming its answer and its results stay published
C17_Witness ==
  /\ query = ""
  /\ call[2].pc = "done"
  /\ search[2].pc = "idle"
  /\ call[1].pc = "stream"
  /\ response # <<>>
  /\ searchResults = <<"q1">>
  /\ searchPromise = 1
  /\ textGenerationState = "generating"

\* initializeWllama failed for call r
InitializeWllamaFailed(r) ==
  \E i \in DOMAIN call[r].errors : call[r].errors[i] = <<"wllama", "init">>

\* C18: initializeWllama never swallows a failure.  A failure of the instance
\* creation or of the model loading is logged and thrown on to the caller, so
\* that it is the last error of the request, which ends "failed"; "Wllama
\* initialized successfully" is logged exactly when an instance was returned,
\* and never together with a failure.
C18_InitializeWllamaNeverSwallows ==
  \A r \in Calls :
    /\ "Failed to create Wllama instance" \in call[r].log =>
         "Failed to initialize Wllama" \in call[r].log
    /\ "Failed to initialize Wllama" \in call[r].log <=> InitializeWllamaFailed(r)
    /\ InitializeWllamaFailed(r) =>
         /\ call[r].errors[Len(call[r].errors)] = <<"wllama", "init">>
         /\ call[r].pc \in {"finally", "done"}
         /\ textGenerationState = "failed"
         /\ "Error generating text" \in call[r].log
         /\ call[r].wllama = "none"
    /\ "Wllama initialized successfully" \in call[r].log <=>
         call[r].wllama \in {"live", "exited"}

\* the Wllama constructor threw: both failures were logged and the request
\* returned with the state "failed"
C18_Witness ==
  /\ call[1].pc = "done"
  /\ call[1].errors = << <<"wllama", "init">> >>
  /\ "Failed to create Wllama instance" \in call[1].log
  /\ "Failed to initialize Wllama" \in call[1].log
  /\ textGenerationState = "failed"

\* the entries "Menu drawer loaded" among the first n of the log
RECURSIVE LoadedEntries(_)
LoadedEntries(n) ==
  IF n = 0 THEN 0
  ELSE LoadedEntries(n - 1) + (IF menu.log[n] = "Menu drawer loaded" THEN 1 ELSE 0)

\* C19: in MenuButton, after any sequence of open, close and drawer-load
\* events: isDrawerLoaded never reverts to false, and is true only when the
\* loaded drawer has replaced the fallback; "Menu drawer loaded" is logged at
\* most once (and once when isDrawerLoaded holds); the drawer subtree is
\* mounted exactly when isDrawerOpen or isDrawerLoaded holds; the button shows
\* its loading indicator exactly when the drawer is open and not yet loaded.
C19_MenuButtonStates ==
  [][/\ menu.isDrawerLoaded => menu'.isDrawerLoaded
     /\ menu'.isDrawerLoaded => (menu'.MenuDrawer = "resolved" /\ menu'.fallback = <<>>)
     /\ LoadedEntries(Len(menu.log))' = (IF menu'.isDrawerLoaded THEN 1 ELSE 0)
     /\ menu'.mounted <=> (menu'.isDrawerOpen \/ menu'.isDrawerLoaded)
     /\ menu'.loading <=> (menu'.isDrawerOpen /\ menu'.MenuDrawer # "resolved")]_vars

\* the drawer was opened, loaded and closed: it stays mounted, closed
C19_Witness ==
  /\ menu.isDrawerLoaded
  /\ ~menu.isDrawerOpen
  /\ menu.mounted
  /\ ~menu.loading
  /\ menu.log = <<"User opened the menu", "Menu drawer loaded", "User closed the menu">>

====
